---------------------------- MODULE Spec2Model ----------------------------
(***************************************************************************)
(* A model of pex's lock file codec (pex/resolve/lockfile/json_codec.py)   *)
(* and of its local project fingerprinter (pex/pip/local_project.py).      *)
(*                                                                         *)
(* Text is modelled as a sequence of symbols.  A symbol is one character,  *)
(* or a word no operation of the code ever looks inside (a schema key, an  *)
(* enum value, the directory name "extracted").                            *)
(***************************************************************************)
EXTENDS Integers, Sequences, FiniteSets, TLC

VARIABLES
    \* ---- pex/pip/local_project.py ----
    fp_pc,        \* position inside fingerprint_local_project / digest_local_project
    caller,       \* which entry point the caller used: "digest" or "fingerprint"
    dest_dir,     \* the dest_dir argument, a Python value (None or a string)
    build_ok,     \* whether pep_517.build_sdist produces an sdist
    archive,      \* the member names of the sdist tar file, in archive order
    fs,           \* the files on disk, as normalized absolute paths
    extract_dir,  \* the local extract_dir
    digested,     \* the files fed to the digest
    ret,          \* what digest_local_project returned or raised
    top,          \* what the caller's own call returned or raised
    \* ---- pex/resolve/lockfile/json_codec.py ----
    pc,               \* position inside as_json_data / loads
    lockfile,         \* the Lockfile handed to as_json_data (NoLockfile when loads is called alone)
    path_mappings,    \* the caller's PathMappings.mappings
    contents,         \* lockfile_contents: whether it is JSON, and the value it denotes
    source,           \* the source argument of loads
    data,             \* the default argument of get: the parsed document
    target_systems,   \* the locals of loads
    requirements,
    constraints,
    resolves,         \* the list under "locked_resolves"
    lock_index,
    platform_tag,
    reqs,             \* the list under "locked_requirements" of the current resolve
    req_index,
    locked_reqs,
    locked_resolves,
    result            \* what loads returned or raised

codecvars == <<pc, lockfile, path_mappings, contents, source, data, target_systems,
               requirements, constraints, resolves, lock_index, platform_tag, reqs,
               req_index, locked_reqs, locked_resolves, result>>

fpvars == <<fp_pc, caller, dest_dir, build_ok, archive, fs, extract_dir, digested, ret, top>>

---------------------------------------------------------------------------
(* Sequences *)

RECURSIVE StartsWith(_, _)
StartsWith(s, p) ==
    IF p = <<>> THEN TRUE
    ELSE IF s = <<>> THEN FALSE
    ELSE s[1] = p[1] /\ StartsWith(Tail(s), Tail(p))

Drop(s, n) == SubSeq(s, n + 1, Len(s))

RECURSIVE Contains(_, _)
Contains(s, p) ==
    IF StartsWith(s, p) THEN TRUE
    ELSE IF s = <<>> THEN FALSE
    ELSE Contains(Tail(s), p)

RECURSIVE SetToSeq(_)
SetToSeq(S) ==
    IF S = {} THEN <<>>
    ELSE LET x == CHOOSE y \in S : TRUE IN <<x>> \o SetToSeq(S \ {x})

---------------------------------------------------------------------------
(* Python values.  One record shape serves every value json.loads can yield *)
(* (and a few opaque ones): t is the type, k the key under which the value  *)
(* sits in its dict (empty elsewhere), b, n, s, l the payload of a bool, an *)
(* int, a str, and a list or dict (a dict is the list of its keyed values,  *)
(* in document order).                                                      *)

PyVal(t, b, n, s, l) == [t |-> t, k |-> <<>>, b |-> b, n |-> n, s |-> s, l |-> l]
None == PyVal("None", FALSE, 0, <<>>, <<>>)
PyBool(b) == PyVal("bool", b, 0, <<>>, <<>>)
PyInt(n) == PyVal("int", FALSE, n, <<>>, <<>>)
PyStr(s) == PyVal("str", FALSE, 0, s, <<>>)
PyList(l) == PyVal("list", FALSE, 0, <<>>, l)
PyDict(l) == PyVal("dict", FALSE, 0, <<>>, l)
Item(key, v) == [v EXCEPT !.k = key]
Unkeyed(v) == [v EXCEPT !.k = <<>>]

\* bool(v)
Truthy(v) ==
    CASE v.t = "None" -> FALSE
      [] v.t = "bool" -> v.b
      [] v.t = "int" -> v.n # 0
      [] v.t = "str" -> v.s # <<>>
      [] v.t \in {"list", "dict"} -> v.l # <<>>
      [] OTHER -> TRUE

\* isinstance(v, expected_type), expected_type one of str, list, dict, bool
isinstance(v, expected_type) == v.t = expected_type

Iterable(v) == v.t \in {"str", "list", "dict"}

\* The values iterating over v yields: the elements of a list, the characters
\* of a str, the keys of a dict.
Iterate(v) ==
    CASE v.t = "list" -> v.l
      [] v.t = "str" -> [i \in 1..Len(v.s) |-> PyStr(<<v.s[i]>>)]
      [] v.t = "dict" -> [i \in 1..Len(v.l) |-> PyStr(v.l[i].k)]
      [] OTHER -> <<>>

\* len(v), for a value that has one
PyLen(v) == IF v.t = "str" THEN Len(v.s) ELSE Len(v.l)

HasKey(obj, key) == \E i \in 1..Len(obj.l) : obj.l[i].k = key

\* obj[key]
Lookup(obj, key) ==
    Unkeyed(obj.l[CHOOSE i \in 1..Len(obj.l) : obj.l[i].k = key])

---------------------------------------------------------------------------
(* What the codec calls in the rest of pex *)

\* The outcome of a step that may raise: a value, or the exception raised.
Ok(v) == [ok |-> TRUE, val |-> v, err |-> None]
Fail(e) == [ok |-> FALSE, val |-> None, err |-> e]

\* An exception.  type is its class; kind, path, key, expected and actual are
\* what its message is formatted from; required_path_mappings and
\* unspecified_paths are the attributes of a PathMappingError.
Exc(type, kind, path, key, expected, actual) ==
    [type |-> type, kind |-> kind, path |-> path, key |-> key,
     expected |-> expected, actual |-> actual,
     required_path_mappings |-> None, unspecified_paths |-> {}]
ParseError(kind, path, key) == Exc("ParseError", kind, path, key, "", "")
OtherError(type) == Exc(type, "", <<>>, <<>>, "", "")

\* str.replace(old, new)
RECURSIVE Replace(_, _, _)
Replace(s, old, new) ==
    IF s = <<>> THEN <<>>
    ELSE IF StartsWith(s, old) THEN new \o Replace(Drop(s, Len(old)), old, new)
    ELSE <<s[1]>> \o Replace(Tail(s), old, new)

\* pex.resolve.path_mappings: a PathMapping is a name, a concrete path and a
\* description; PathMappings.mappings is a tuple of them.
PathMapping(name, path, description) ==
    [name |-> name, path |-> path, description |-> description]

Placeholder(name) == <<"{">> \o name \o <<"}">>

RECURSIVE maybe_reify(_, _)
maybe_reify(mappings, text) ==
    IF mappings = <<>> THEN text
    ELSE maybe_reify(Tail(mappings),
                     Replace(text, Placeholder(mappings[1].name), mappings[1].path))

RECURSIVE maybe_canonicalize(_, _)
maybe_canonicalize(mappings, text) ==
    IF mappings = <<>> THEN text
    ELSE maybe_canonicalize(Tail(mappings),
                            Replace(text, mappings[1].path, Placeholder(mappings[1].name)))

\* pex.enum: the closed vocabularies, by the name of the Enum class.
Values(enum_type) ==
    CASE enum_type = "LockStyle" -> {<<"strict">>, <<"sources">>, <<"universal">>}
      [] enum_type = "TargetSystem" -> {<<"linux">>, <<"mac">>, <<"windows">>}
      [] enum_type = "PipVersion" -> {<<"20.3.4-patched">>, <<"22.2.2">>}
      [] enum_type = "ResolverVersion" -> {<<"pip-legacy-resolver">>, <<"pip-2020-resolver">>}
      [] OTHER -> {}

\* A member of an Enum class; str(member) is its value.
EnumValue(enum_type, value) == [enum |-> enum_type, value |-> value]
EnumStr(member) == member.value
NoEnumValue == EnumValue("", <<>>)

\* Enum.for_value(value): the member with that value, or ValueError.
for_value(enum_type, value) ==
    IF value.t = "str" /\ value.s \in Values(enum_type)
    THEN Ok(EnumValue(enum_type, value.s))
    ELSE Fail(OtherError("ValueError"))

\* Requirement.parse(text) and str(requirement).  The grammar is pex's own:
\* here blanks are insignificant, and an empty text or one holding "!" is
\* rejected.
RECURSIVE Unblank(_)
Unblank(s) ==
    IF s = <<>> THEN <<>>
    ELSE IF s[1] = " " THEN Unblank(Tail(s))
    ELSE <<s[1]>> \o Unblank(Tail(s))

Requirement(text) == [text |-> text]

RequirementParse(text) ==
    IF Unblank(text) = <<>> \/ Contains(text, <<"!">>)
    THEN Fail(OtherError("RequirementParseError"))
    ELSE Ok(Requirement(Unblank(text)))

RequirementStr(req) == req.text

\* packaging's SpecifierSet: a set of specifiers, falsy when empty (it has a
\* __len__), written as its specifiers joined by commas.
Specifiers == <<">=3.6", "<4">>
NoSpecifierSet == [present |-> FALSE, specs |-> {}]
SpecifierSetOf(specs) == [present |-> TRUE, specs |-> specs]

RECURSIVE SplitComma(_, _)
SplitComma(s, cur) ==
    IF s = <<>> THEN <<cur>>
    ELSE IF s[1] = "," THEN <<cur>> \o SplitComma(Tail(s), <<>>)
    ELSE SplitComma(Tail(s), Append(cur, s[1]))

SpecifierSetParse(text) ==
    LET pieces == SplitComma(Unblank(text), <<>>)
        known == { Specifiers[i] : i \in 1..Len(Specifiers) }
    IN  IF Unblank(text) = <<>> THEN Ok(SpecifierSetOf({}))
        ELSE IF \A i \in 1..Len(pieces) : Len(pieces[i]) = 1 /\ pieces[i][1] \in known
        THEN Ok(SpecifierSetOf({ pieces[i][1] : i \in 1..Len(pieces) }))
        ELSE Fail(OtherError("InvalidSpecifier"))

RECURSIVE JoinSpecifiers(_, _)
JoinSpecifiers(specs, i) ==
    IF i > Len(Specifiers) THEN <<>>
    ELSE IF Specifiers[i] \notin specs THEN JoinSpecifiers(specs, i + 1)
    ELSE IF \E j \in (i + 1)..Len(Specifiers) : Specifiers[j] \in specs
    THEN <<Specifiers[i], ",">> \o JoinSpecifiers(specs, i + 1)
    ELSE <<Specifiers[i]>>

SpecifierSetStr(ss) == JoinSpecifiers(ss.specs, 1)

\* packaging's tags.Tag, and the absence of one.
NoTag == [present |-> FALSE, interpreter |-> <<>>, abi |-> <<>>, platform |-> <<>>]
Tag(interpreter, abi, platform) ==
    [present |-> TRUE, interpreter |-> interpreter, abi |-> abi, platform |-> platform]

\* The model's records (pex.resolve.locked_resolve, pex.resolve.lockfile.model).
Fingerprint(algorithm, hash) == [algorithm |-> algorithm, hash |-> hash]
Artifact(url, fingerprint) == [url |-> url, fingerprint |-> fingerprint]
\* ProjectName(text) and Version(text) keep the text; str gives it back.
ProjectName(text) == [raw |-> text]
Version(text) == [raw |-> text]
Pin(project_name, version) == [project_name |-> project_name, version |-> version]
LockedRequirement(pin, requires_python, requires_dists, artifact, additional_artifacts) ==
    [pin |-> pin, requires_python |-> requires_python, requires_dists |-> requires_dists,
     artifact |-> artifact, additional_artifacts |-> additional_artifacts]
LockedResolve(locked_requirements, tag) ==
    [locked_requirements |-> locked_requirements, platform_tag |-> tag]

\* req.iter_artifacts()
iter_artifacts(req) == <<req.artifact>> \o req.additional_artifacts

\* The order of pins: by project name, then by version, symbol by symbol.
SortAlphabet == <<"0", "1", "2", "a", "b", "c">>
Rank(sym) ==
    IF \E i \in 1..Len(SortAlphabet) : SortAlphabet[i] = sym
    THEN CHOOSE i \in 1..Len(SortAlphabet) : SortAlphabet[i] = sym
    ELSE 0

RECURSIVE StrLess(_, _)
StrLess(a, b) ==
    IF b = <<>> THEN FALSE
    ELSE IF a = <<>> THEN TRUE
    ELSE IF Rank(a[1]) # Rank(b[1]) THEN Rank(a[1]) < Rank(b[1])
    ELSE StrLess(Tail(a), Tail(b))

PinLess(p, q) ==
    \/ StrLess(p.project_name.raw, q.project_name.raw)
    \/ p.project_name = q.project_name /\ StrLess(p.version.raw, q.version.raw)

RECURSIVE InsertSorted(_, _)
InsertSorted(sorted, req) ==
    IF sorted = <<>> THEN <<req>>
    ELSE IF PinLess(req.pin, sorted[1].pin) THEN <<req>> \o sorted
    ELSE <<sorted[1]>> \o InsertSorted(Tail(sorted), req)

\* SortedTuple(locked_reqs)
RECURSIVE SortedTuple(_)
SortedTuple(items) ==
    IF items = <<>> THEN <<>>
    ELSE InsertSorted(SortedTuple(SubSeq(items, 1, Len(items) - 1)), items[Len(items)])

IsSorted(items) ==
    \A i \in 1..(Len(items) - 1) : ~PinLess(items[i + 1].pin, items[i].pin)

---------------------------------------------------------------------------
(* pex/resolve/lockfile/json_codec.py: the helpers of loads *)

\* _DEFAULT_PIP_CONFIGURATION.version
DefaultPipVersion == EnumValue("PipVersion", <<"20.3.4-patched">>)

\* The pieces of a path as the messages format it: [index] and ["key"].
Index(i) == <<"[", ToString(i), "]">>
Keyed(path, key) == path \o <<"[\"">> \o key \o <<"\"]">>
Root == <<".">>

get(key, expected_type, obj, path, optional) ==
    IF ~isinstance(obj, "dict")
    THEN Fail(Exc("ParseError", "not a JSON object", path, key, "dict", obj.t))
    ELSE IF ~HasKey(obj, key)
    THEN IF optional THEN Ok(None)
         ELSE Fail(ParseError("did not have the expected key", path, key))
    ELSE LET value == Lookup(obj, key) IN
         IF ~optional /\ ~isinstance(value, expected_type)
         THEN Fail(Exc("ParseError", "expected type", path, key, expected_type, value.t))
         ELSE Ok(value)

parse_enum_value(enum_type, value, path) ==
    LET r == for_value(enum_type, value) IN
    IF r.ok THEN r ELSE Fail(ParseError("is invalid", path, <<>>))

get_enum_value(enum_type, key, obj, path, default) ==
    LET r == get(key, "str", obj, path, default # NoEnumValue) IN
    IF ~r.ok THEN r
    ELSE IF ~Truthy(r.val) /\ default # NoEnumValue THEN Ok(default)
    ELSE parse_enum_value(enum_type, r.val, Keyed(path, key))

\* path_mappings.maybe_reify and Requirement.parse are handed whatever the
\* list holds: a value that is no string makes them raise a TypeError.
parse_requirement(mappings, raw_requirement, path) ==
    IF raw_requirement.t # "str" THEN Fail(OtherError("TypeError"))
    ELSE LET r == RequirementParse(maybe_reify(mappings, raw_requirement.s)) IN
         IF r.ok THEN r
         ELSE Fail(ParseError("requirement string is invalid", path, <<>>))

parse_version_specifier(raw_version_specifier, path) ==
    IF raw_version_specifier.t # "str" THEN Fail(OtherError("TypeError"))
    ELSE LET r == SpecifierSetParse(raw_version_specifier.s) IN
         IF r.ok THEN r
         ELSE Fail(ParseError("version specifier is invalid", path, <<>>))

assemble_tag(components, path) ==
    IF ~Iterable(components) THEN Fail(OtherError("TypeError"))
    ELSE IF \/ PyLen(components) # 3
            \/ ~ \A i \in 1..PyLen(components) : isinstance(Iterate(components)[i], "str")
    THEN Fail(ParseError("tag must have 3 string components", path, <<>>))
    ELSE IF components.t = "dict" THEN Fail(OtherError("KeyError"))
    ELSE LET c == Iterate(components) IN Ok(Tag(c[1].s, c[2].s, c[3].s))

\* [parse(x, path[index]) for index, x in enumerate(values)], given what parse
\* makes of each x: the first failure ends the comprehension.
ParseEach(parsed) ==
    IF \A i \in 1..Len(parsed) : parsed[i].ok
    THEN Ok([i \in 1..Len(parsed) |-> parsed[i].val])
    ELSE parsed[CHOOSE i \in 1..Len(parsed) :
                    ~parsed[i].ok /\ \A n \in 1..(i - 1) : parsed[n].ok]

\* A mutant of unspecified_paths_of: the difference is taken the wrong way round.
unspecified_paths_swapped(required_path_mappings, given_mappings) ==
    given_mappings
        \ { Iterate(required_path_mappings)[i].s : i \in 1..PyLen(required_path_mappings) }

\* The unspecified_paths of loads
unspecified_paths_of(required_path_mappings, given_mappings) ==
    { Iterate(required_path_mappings)[i].s : i \in 1..PyLen(required_path_mappings) }
        \ given_mappings

\* artifact=artifacts[0] and additional_artifacts=artifacts[1:]
PrimaryArtifact(artifacts) == artifacts[1]
\* A mutant of AdditionalArtifacts: the slice starts at the primary artifact.
AdditionalArtifactsFromFirst(artifacts) == artifacts

AdditionalArtifacts(artifacts) == Tail(artifacts)

---------------------------------------------------------------------------
(* pex/resolve/lockfile/json_codec.py: as_json_data *)

K(name) == <<name>>

NoLockfile == [pex_version |-> None]

PyStrs(strs) == PyList([i \in 1..Len(strs) |-> PyStr(strs[i])])

ArtifactJson(mappings, artifact) ==
    PyDict(<< Item(K("url"), PyStr(maybe_canonicalize(mappings, artifact.url))),
              Item(K("algorithm"), artifact.fingerprint.algorithm),
              Item(K("hash"), artifact.fingerprint.hash) >>)

LockedRequirementJson(mappings, req) ==
    PyDict(<< Item(K("project_name"), PyStr(req.pin.project_name.raw)),
              Item(K("version"), PyStr(req.pin.version.raw)),
              Item(K("requires_dists"),
                   PyStrs([i \in 1..Len(req.requires_dists) |->
                              maybe_canonicalize(mappings, RequirementStr(req.requires_dists[i]))])),
              Item(K("requires_python"),
                   IF req.requires_python.present /\ req.requires_python.specs # {}
                   THEN PyStr(SpecifierSetStr(req.requires_python))
                   ELSE None),
              Item(K("artifacts"),
                   PyList([i \in 1..Len(iter_artifacts(req)) |->
                              ArtifactJson(mappings, iter_artifacts(req)[i])])) >>)

LockedResolveJson(mappings, locked_resolve) ==
    PyDict(<< Item(K("platform_tag"),
                   IF locked_resolve.platform_tag.present
                   THEN PyStrs(<< locked_resolve.platform_tag.interpreter,
                                  locked_resolve.platform_tag.abi,
                                  locked_resolve.platform_tag.platform >>)
                   ELSE None),
              Item(K("locked_requirements"),
                   PyList([i \in 1..Len(locked_resolve.locked_requirements) |->
                              LockedRequirementJson(mappings,
                                                    locked_resolve.locked_requirements[i])])) >>)

\* The "constraints" entry of as_json_data
ConstraintsJson(mappings, lf) ==
    PyStrs([i \in 1..Len(lf.constraints) |-> RequirementStr(lf.constraints[i])])

as_json_data(lf, mappings) ==
    PyDict(<<
        Item(K("pex_version"), lf.pex_version),
        Item(K("style"), PyStr(EnumStr(lf.style))),
        Item(K("requires_python"), PyList(lf.requires_python.l)),
        Item(K("target_systems"),
             PyStrs([i \in 1..Len(lf.target_systems) |-> EnumStr(lf.target_systems[i])])),
        Item(K("pip_version"), PyStr(EnumStr(lf.pip_version))),
        Item(K("resolver_version"), PyStr(EnumStr(lf.resolver_version))),
        Item(K("requirements"),
             PyStrs([i \in 1..Len(lf.requirements) |->
                        maybe_canonicalize(mappings, RequirementStr(lf.requirements[i]))])),
        Item(K("constraints"), ConstraintsJson(mappings, lf)),
        Item(K("allow_prereleases"), lf.allow_prereleases),
        Item(K("allow_wheels"), lf.allow_wheels),
        Item(K("allow_builds"), lf.allow_builds),
        Item(K("prefer_older_binary"), lf.prefer_older_binary),
        Item(K("use_pep517"), lf.use_pep517),
        Item(K("build_isolation"), lf.build_isolation),
        Item(K("transitive"), lf.transitive),
        Item(K("locked_resolves"),
             PyList([i \in 1..Len(lf.locked_resolves) |->
                        LockedResolveJson(mappings, lf.locked_resolves[i])])),
        Item(K("path_mappings"),
             PyDict([i \in 1..Len(mappings) |->
                        Item(mappings[i].name, mappings[i].description)])) >>)

---------------------------------------------------------------------------
(* pex/resolve/lockfile/json_codec.py: loads, statement by statement *)

PendingResult == [kind |-> "pending", lockfile |-> NoLockfile, error |-> None]
ReturnedLockfile(lf) == [kind |-> "Lockfile", lockfile |-> lf, error |-> None]
RaisedError(e) == [kind |-> "raised", lockfile |-> NoLockfile, error |-> e]

\* The caller renders as_json_data's value as JSON and hands the text to loads.
AsJsonData ==
    /\ pc = "as_json_data"
    /\ contents' = [json_ok |-> TRUE, value |-> as_json_data(lockfile, path_mappings)]
    /\ pc' = "load_json"
    /\ UNCHANGED fpvars
    /\ UNCHANGED <<lockfile, path_mappings, source, data, target_systems, requirements,
                   constraints, resolves, lock_index, platform_tag, reqs, req_index,
                   locked_reqs, locked_resolves, result>>

\* _load_json, evaluated as the default of get's data parameter
LoadJson ==
    /\ pc = "load_json"
    /\ IF contents.json_ok
       THEN data' = contents.value /\ pc' = "path_mappings" /\ result' = result
       ELSE /\ result' = RaisedError(ParseError("does not contain valid JSON", <<>>, <<>>))
            /\ pc' = "done"
            /\ data' = data
    /\ UNCHANGED fpvars
    /\ UNCHANGED <<lockfile, path_mappings, contents, source, target_systems, requirements,
                   constraints, resolves, lock_index, platform_tag, reqs, req_index,
                   locked_reqs, locked_resolves>>

given_mappings == { path_mappings[i].name : i \in 1..Len(path_mappings) }

\* required_path_mappings ... raise PathMappingError
CheckPathMappingsResult ==
    LET r == get(K("path_mappings"), "dict", data, Root, TRUE) IN
    IF ~r.ok THEN r
    ELSE LET required_path_mappings == IF Truthy(r.val) THEN r.val ELSE PyDict(<<>>) IN
         IF ~Iterable(required_path_mappings) THEN Fail(OtherError("TypeError"))
         ELSE LET unspecified_paths ==
                      unspecified_paths_of(required_path_mappings, given_mappings)
              IN  IF unspecified_paths # {}
                  THEN Fail([Exc("PathMappingError", "", <<>>, <<>>, "", "")
                                 EXCEPT !.required_path_mappings = required_path_mappings,
                                        !.unspecified_paths = unspecified_paths])
                  ELSE Ok(required_path_mappings)

CheckPathMappings ==
    /\ pc = "path_mappings"
    /\ LET r == CheckPathMappingsResult IN
       IF r.ok THEN pc' = "target_systems" /\ result' = result
       ELSE pc' = "done" /\ result' = RaisedError(r.err)
    /\ UNCHANGED fpvars
    /\ UNCHANGED <<lockfile, path_mappings, contents, source, data, target_systems,
                   requirements, constraints, resolves, lock_index, platform_tag, reqs,
                   req_index, locked_reqs, locked_resolves>>

\* target_systems = [...]
ParseTargetSystemsResult ==
    LET r == get(K("target_systems"), "list", data, Root, TRUE) IN
    IF ~r.ok THEN r
    ELSE IF ~Truthy(r.val) THEN Ok(<<>>)
    ELSE IF ~Iterable(r.val) THEN Fail(OtherError("TypeError"))
    ELSE ParseEach([index \in 1..PyLen(r.val) |->
                       parse_enum_value("TargetSystem", Iterate(r.val)[index],
                                        <<".target_systems">> \o Index(index - 1))])

ParseTargetSystems ==
    /\ pc = "target_systems"
    /\ LET r == ParseTargetSystemsResult IN
       IF r.ok THEN pc' = "requirements" /\ target_systems' = r.val /\ result' = result
       ELSE pc' = "done" /\ result' = RaisedError(r.err) /\ target_systems' = target_systems
    /\ UNCHANGED fpvars
    /\ UNCHANGED <<lockfile, path_mappings, contents, source, data, requirements,
                   constraints, resolves, lock_index, platform_tag, reqs, req_index,
                   locked_reqs, locked_resolves>>

\* A list of requirement strings under key: requirements, constraints, requires_dists
ParseRequirementsUnder(key, obj, path, item_path) ==
    LET r == get(key, "list", obj, path, FALSE) IN
    IF ~r.ok THEN r
    ELSE ParseEach([index \in 1..Len(r.val.l) |->
                       parse_requirement(path_mappings, r.val.l[index],
                                         item_path \o Index(index - 1))])

\* requirements = [...]
ParseRequirements ==
    /\ pc = "requirements"
    /\ LET r == ParseRequirementsUnder(K("requirements"), data, Root, <<".requirements">>) IN
       IF r.ok THEN pc' = "constraints" /\ requirements' = r.val /\ result' = result
       ELSE pc' = "done" /\ result' = RaisedError(r.err) /\ requirements' = requirements
    /\ UNCHANGED fpvars
    /\ UNCHANGED <<lockfile, path_mappings, contents, source, data, target_systems,
                   constraints, resolves, lock_index, platform_tag, reqs, req_index,
                   locked_reqs, locked_resolves>>

\* constraints = [...]
ParseConstraints ==
    /\ pc = "constraints"
    /\ LET r == ParseRequirementsUnder(K("constraints"), data, Root, <<".constraints">>) IN
       IF r.ok THEN pc' = "locked_resolves" /\ constraints' = r.val /\ result' = result
       ELSE pc' = "done" /\ result' = RaisedError(r.err) /\ constraints' = constraints
    /\ UNCHANGED fpvars
    /\ UNCHANGED <<lockfile, path_mappings, contents, source, data, target_systems,
                   requirements, resolves, lock_index, platform_tag, reqs, req_index,
                   locked_reqs, locked_resolves>>

\* for lock_index, locked_resolve in enumerate(get("locked_resolves", list)):
GetLockedResolves ==
    /\ pc = "locked_resolves"
    /\ LET r == get(K("locked_resolves"), "list", data, Root, FALSE) IN
       IF r.ok
       THEN /\ pc' = "locked_resolve"
            /\ resolves' = r.val.l
            /\ lock_index' = 0
            /\ locked_resolves' = <<>>
            /\ result' = result
       ELSE /\ pc' = "done"
            /\ result' = RaisedError(r.err)
            /\ UNCHANGED <<resolves, lock_index, locked_resolves>>
    /\ UNCHANGED fpvars
    /\ UNCHANGED <<lockfile, path_mappings, contents, source, data, target_systems,
                   requirements, constraints, platform_tag, reqs, req_index, locked_reqs>>

lock_path == <<".locked_resolves">> \o Index(lock_index)
req_path == lock_path \o Index(req_index)

\* The head of the loop body: platform_tag, then the locked_requirements list
BeginLockedResolveResult ==
    LET locked_resolve == resolves[lock_index + 1]
        c == get(K("platform_tag"), "list", locked_resolve, lock_path, TRUE)
    IN  IF ~c.ok THEN c
        ELSE LET tag == IF Truthy(c.val)
                        THEN assemble_tag(c.val, Keyed(lock_path, K("platform_tag")))
                        ELSE Ok(NoTag)
             IN  IF ~tag.ok THEN tag
                 ELSE LET l == get(K("locked_requirements"), "list", locked_resolve,
                                   lock_path, FALSE)
                      IN  IF ~l.ok THEN l
                          ELSE Ok([platform_tag |-> tag.val, reqs |-> l.val.l])

BeginLockedResolve ==
    /\ pc = "locked_resolve"
    /\ lock_index < Len(resolves)
    /\ LET r == BeginLockedResolveResult IN
       IF r.ok
       THEN /\ pc' = "locked_requirement"
            /\ platform_tag' = r.val.platform_tag
            /\ reqs' = r.val.reqs
            /\ req_index' = 0
            /\ locked_reqs' = <<>>
            /\ result' = result
       ELSE /\ pc' = "done"
            /\ result' = RaisedError(r.err)
            /\ UNCHANGED <<platform_tag, reqs, req_index, locked_reqs>>
    /\ UNCHANGED fpvars
    /\ UNCHANGED <<lockfile, path_mappings, contents, source, data, target_systems,
                   requirements, constraints, resolves, lock_index, locked_resolves>>

\* One artifact of the artifacts list
ParseArtifact(artifact, ap) ==
    LET url == get(K("url"), "str", artifact, ap, FALSE) IN
    IF ~url.ok THEN url
    ELSE LET algorithm == get(K("algorithm"), "str", artifact, ap, FALSE) IN
         IF ~algorithm.ok THEN algorithm
         ELSE LET hash == get(K("hash"), "str", artifact, ap, FALSE) IN
              IF ~hash.ok THEN hash
              ELSE Ok(Artifact(maybe_reify(path_mappings, url.val.s),
                               Fingerprint(algorithm.val, hash.val)))

\* The artifacts loop and the check that follows it
ParseArtifacts(req) ==
    LET l == get(K("artifacts"), "list", req, req_path, FALSE) IN
    IF ~l.ok THEN l
    ELSE LET artifacts == ParseEach([i \in 1..Len(l.val.l) |->
                                        ParseArtifact(l.val.l[i],
                                                      Keyed(req_path, K("artifacts"))
                                                          \o Index(i - 1))])
         IN  IF ~artifacts.ok THEN artifacts
             ELSE IF artifacts.val = <<>>
             THEN Fail(ParseError("to have at least one artifact", req_path, <<>>))
             ELSE artifacts

\* requires_python of a locked requirement
ParseRequiresPython(req) ==
    LET version_specifier == get(K("requires_python"), "str", req, req_path, TRUE) IN
    IF ~version_specifier.ok THEN version_specifier
    ELSE IF Truthy(version_specifier.val)
    THEN parse_version_specifier(version_specifier.val,
                                 Keyed(req_path, K("requires_python")))
    ELSE Ok(NoSpecifierSet)

\* The body of the inner loop: one locked requirement
ParseLockedRequirementResult ==
    LET req == reqs[req_index + 1]
        artifacts == ParseArtifacts(req)
    IN  IF ~artifacts.ok THEN artifacts
        ELSE LET requires_python == ParseRequiresPython(req) IN
        IF ~requires_python.ok THEN requires_python
        ELSE LET project_name == get(K("project_name"), "str", req, req_path, FALSE) IN
        IF ~project_name.ok THEN project_name
        ELSE LET version == get(K("version"), "str", req, req_path, FALSE) IN
        IF ~version.ok THEN version
        ELSE LET requires_dists ==
                     ParseRequirementsUnder(K("requires_dists"), req, req_path,
                                            Keyed(req_path, K("requires_dists")))
             IN
        IF ~requires_dists.ok THEN requires_dists
        ELSE Ok(LockedRequirement(Pin(ProjectName(project_name.val.s), Version(version.val.s)),
                                  requires_python.val,
                                  requires_dists.val,
                                  PrimaryArtifact(artifacts.val),
                                  AdditionalArtifacts(artifacts.val)))

ParseLockedRequirement ==
    /\ pc = "locked_requirement"
    /\ req_index < Len(reqs)
    /\ LET r == ParseLockedRequirementResult IN
       IF r.ok
       THEN /\ locked_reqs' = Append(locked_reqs, r.val)
            /\ req_index' = req_index + 1
            /\ pc' = pc
            /\ result' = result
       ELSE /\ pc' = "done"
            /\ result' = RaisedError(r.err)
            /\ UNCHANGED <<locked_reqs, req_index>>
    /\ UNCHANGED fpvars
    /\ UNCHANGED <<lockfile, path_mappings, contents, source, data, target_systems,
                   requirements, constraints, resolves, lock_index, platform_tag, reqs,
                   locked_resolves>>

\* locked_resolves.append(LockedResolve(...))
EndLockedResolve ==
    /\ pc = "locked_requirement"
    /\ req_index = Len(reqs)
    /\ locked_resolves' =
           Append(locked_resolves, LockedResolve(SortedTuple(locked_reqs), platform_tag))
    /\ lock_index' = lock_index + 1
    /\ pc' = "locked_resolve"
    /\ UNCHANGED fpvars
    /\ UNCHANGED <<lockfile, path_mappings, contents, source, data, target_systems,
                   requirements, constraints, resolves, platform_tag, reqs, req_index,
                   locked_reqs, result>>

\* The arguments of Lockfile.create that read the document, in the order the
\* call evaluates them.
CreateArgs ==
    << [key |-> "pex_version", type |-> "str", optional |-> FALSE, enum |-> ""],
       [key |-> "style", type |-> "str", optional |-> FALSE, enum |-> "LockStyle"],
       [key |-> "requires_python", type |-> "list", optional |-> FALSE, enum |-> ""],
       [key |-> "pip_version", type |-> "str", optional |-> TRUE, enum |-> "PipVersion"],
       [key |-> "resolver_version", type |-> "str", optional |-> FALSE,
        enum |-> "ResolverVersion"],
       [key |-> "allow_prereleases", type |-> "bool", optional |-> FALSE, enum |-> ""],
       [key |-> "allow_wheels", type |-> "bool", optional |-> FALSE, enum |-> ""],
       [key |-> "allow_builds", type |-> "bool", optional |-> FALSE, enum |-> ""],
       [key |-> "prefer_older_binary", type |-> "bool", optional |-> FALSE, enum |-> ""],
       [key |-> "use_pep517", type |-> "bool", optional |-> TRUE, enum |-> ""],
       [key |-> "build_isolation", type |-> "bool", optional |-> FALSE, enum |-> ""],
       [key |-> "transitive", type |-> "bool", optional |-> FALSE, enum |-> ""] >>

CreateArg(i) ==
    LET a == CreateArgs[i] IN
    IF a.enum = "" THEN get(K(a.key), a.type, data, Root, a.optional)
    ELSE get_enum_value(a.enum, K(a.key), data, Root,
                        IF a.optional THEN DefaultPipVersion ELSE NoEnumValue)

ArgNamed(key) == CreateArg(CHOOSE i \in 1..Len(CreateArgs) : CreateArgs[i].key = key).val

\* return Lockfile.create(...)
CreateLockfileResult ==
    IF \E i \in 1..Len(CreateArgs) : ~CreateArg(i).ok
    THEN CreateArg(CHOOSE i \in 1..Len(CreateArgs) :
                       /\ ~CreateArg(i).ok
                       /\ \A j \in 1..(i - 1) : CreateArg(j).ok)
    ELSE Ok([pex_version |-> ArgNamed("pex_version"),
             style |-> ArgNamed("style"),
             requires_python |-> ArgNamed("requires_python"),
             target_systems |-> target_systems,
             pip_version |-> ArgNamed("pip_version"),
             resolver_version |-> ArgNamed("resolver_version"),
             requirements |-> requirements,
             constraints |-> constraints,
             allow_prereleases |-> ArgNamed("allow_prereleases"),
             allow_wheels |-> ArgNamed("allow_wheels"),
             allow_builds |-> ArgNamed("allow_builds"),
             prefer_older_binary |-> ArgNamed("prefer_older_binary"),
             use_pep517 |-> ArgNamed("use_pep517"),
             build_isolation |-> ArgNamed("build_isolation"),
             transitive |-> ArgNamed("transitive"),
             locked_resolves |-> locked_resolves,
             source |-> source])

CreateLockfile ==
    /\ pc = "locked_resolve"
    /\ lock_index = Len(resolves)
    /\ LET r == CreateLockfileResult IN
       result' = IF r.ok THEN ReturnedLockfile(r.val) ELSE RaisedError(r.err)
    /\ pc' = "done"
    /\ UNCHANGED fpvars
    /\ UNCHANGED <<lockfile, path_mappings, contents, source, data, target_systems,
                   requirements, constraints, resolves, lock_index, platform_tag, reqs,
                   req_index, locked_reqs, locked_resolves>>

NextCodec ==
    \/ AsJsonData
    \/ LoadJson
    \/ CheckPathMappings
    \/ ParseTargetSystems
    \/ ParseRequirements
    \/ ParseConstraints
    \/ GetLockedResolves
    \/ BeginLockedResolve
    \/ ParseLockedRequirement
    \/ EndLockedResolve
    \/ CreateLockfile

---------------------------------------------------------------------------
(* The inputs of the codec *)

\* Bounds of the codec's inputs.
MaxResolves == 2
MaxReqs == 2
MaxArtifacts == 2
MaxTagLen == 4

MapA == PathMapping(<<"A">>, <<"/", "h">>, PyStr(<<"home">>))
MapB == PathMapping(<<"B">>, <<"/", "k">>, None)
GivenMappings == {<<>>, <<MapA>>, <<MapA, MapB>>}

\* Texts that hold the destination of MapA, its placeholder, or neither.
Urls == {<<"https:", "x">>, <<"file:", "/", "h", "/", "w">>, <<"file:", "{", "A", "}", "/", "w">>}
RequirementTexts == {<<"foo">>, <<"foo", "@", "/", "h">>}

Shapes ==
    { [nres |-> 0, nreqs |-> 1, nart |-> 1],
      [nres |-> 1, nreqs |-> 1, nart |-> 1],
      [nres |-> MaxResolves, nreqs |-> MaxReqs, nart |-> MaxArtifacts] }

Sha == PyStr(<<"sha256">>)

\* A Lockfile as the resolver builds it: locked requirements sorted by pin, one
\* artifact or more each, enum fields within their vocabularies.
LockfileOf(shape, url, requirement, constraint, dist, requires_python, tag, flags, systems) ==
    [pex_version |-> PyStr(<<"2.1.103">>),
     style |-> EnumValue("LockStyle", <<"strict">>),
     requires_python |-> PyStrs(<< <<">=3.6">> >>),
     target_systems |-> [i \in 1..Len(systems) |-> EnumValue("TargetSystem", systems[i])],
     pip_version |-> EnumValue("PipVersion", flags.pip_version),
     resolver_version |-> EnumValue("ResolverVersion", <<"pip-2020-resolver">>),
     requirements |-> << Requirement(requirement) >>,
     constraints |-> << Requirement(constraint) >>,
     allow_prereleases |-> PyBool(FALSE),
     allow_wheels |-> PyBool(TRUE),
     allow_builds |-> PyBool(TRUE),
     prefer_older_binary |-> PyBool(FALSE),
     use_pep517 |-> flags.use_pep517,
     build_isolation |-> PyBool(TRUE),
     transitive |-> PyBool(TRUE),
     locked_resolves |->
         [i \in 1..shape.nres |->
             LockedResolve(
                 [j \in 1..shape.nreqs |->
                     LockedRequirement(
                         Pin(ProjectName(<<SortAlphabet[3 + j]>>), Version(<<"1">>)),
                         requires_python,
                         << Requirement(dist) >>,
                         Artifact(url, Fingerprint(Sha, PyStr(<<"0">>))),
                         [n \in 1..(shape.nart - 1) |->
                             Artifact(<<"https:", "y">>,
                                      Fingerprint(Sha, PyStr(<<ToString(n)>>)))])],
                 tag)],
     source |-> <<"lock.json">>]

SomeTag == Tag(<<"cp39">>, <<"abi3">>, <<"linux">>)

Lockfiles ==
    { LockfileOf(shape, url, requirement, constraint, dist, requires_python, tag, flags, systems) :
        shape \in Shapes, url \in Urls, requirement \in RequirementTexts,
        constraint \in RequirementTexts, dist \in RequirementTexts,
        requires_python \in { NoSpecifierSet, SpecifierSetOf({}), SpecifierSetOf({">=3.6"}),
                              SpecifierSetOf({">=3.6", "<4"}) },
        tag \in {NoTag, SomeTag},
        flags \in { [pip_version |-> <<"20.3.4-patched">>, use_pep517 |-> None],
                    [pip_version |-> <<"22.2.2">>, use_pep517 |-> PyBool(FALSE)] },
        systems \in { <<>>, << <<"linux">>, <<"mac">> >> } }

\* The document the hand-edited ones start from.
BaseLockfile ==
    LockfileOf([nres |-> MaxResolves, nreqs |-> MaxReqs, nart |-> MaxArtifacts],
               <<"file:", "/", "h", "/", "w">>, <<"foo", "@", "/", "h">>, <<"foo">>, <<"foo">>,
               SpecifierSetOf({">=3.6"}), SomeTag,
               [pip_version |-> <<"22.2.2">>, use_pep517 |-> PyBool(TRUE)],
               << <<"linux">> >>)

BaseDocument == as_json_data(BaseLockfile, <<MapA, MapB>>)

\* The places of a document: a place is the list of positions that leads to it.
RECURSIVE Places(_)
Places(v) ==
    IF v.t \in {"list", "dict"}
    THEN UNION { {<<i>>} \cup { <<i>> \o p : p \in Places(v.l[i]) } : i \in 1..Len(v.l) }
    ELSE {}

RECURSIVE SetAt(_, _, _)
SetAt(v, place, new) ==
    IF place = <<>> THEN Item(v.k, new)
    ELSE [v EXCEPT !.l = [i \in 1..Len(v.l) |->
                             IF i = place[1] THEN SetAt(v.l[i], Tail(place), new)
                             ELSE v.l[i]]]

RECURSIVE RemoveAt(_, _)
RemoveAt(v, place) ==
    IF Len(place) = 1
    THEN [v EXCEPT !.l = SubSeq(v.l, 1, place[1] - 1) \o SubSeq(v.l, place[1] + 1, Len(v.l))]
    ELSE [v EXCEPT !.l = [i \in 1..Len(v.l) |->
                             IF i = place[1] THEN RemoveAt(v.l[i], Tail(place))
                             ELSE v.l[i]]]

\* What a hand edit may put at a place: values of every JSON type, falsy and
\* truthy, members of the vocabularies and strangers to them.
EditValues ==
    { None, PyBool(TRUE), PyBool(FALSE), PyInt(0), PyInt(5),
      PyStr(<<>>), PyStr(<<"a", "b", "c">>), PyStr(<<"A">>), PyStr(<<"!">>),
      PyStr(<<"sources">>), PyStr(<<"20.3.4-patched">>), PyStr(<<"mac">>),
      PyStr(<<"<4">>),
      PyDict(<<>>), PyDict(<< Item(<<"A">>, None) >>),
      PyDict(<< Item(<<"mac">>, None), Item(<<"A">>, None), Item(<<"C">>, None) >>),
      PyList(<< PyStr(<<"cp39">>), PyInt(1), PyStr(<<"linux">>) >>) }
    \cup { PyStrs([i \in 1..n |-> <<"mac">>]) : n \in 0..MaxTagLen }

Documents ==
    {BaseDocument}
    \cup { SetAt(BaseDocument, place, v) : place \in Places(BaseDocument), v \in EditValues }
    \cup { RemoveAt(BaseDocument, place) : place \in Places(BaseDocument) }

NotJson == [json_ok |-> FALSE, value |-> None]

InitCodecVars ==
    /\ source = <<"lock.json">>
    /\ data = None
    /\ target_systems = <<>>
    /\ requirements = <<>>
    /\ constraints = <<>>
    /\ resolves = <<>>
    /\ lock_index = 0
    /\ platform_tag = NoTag
    /\ reqs = <<>>
    /\ req_index = 0
    /\ locked_reqs = <<>>
    /\ locked_resolves = <<>>
    /\ result = PendingResult

\* loads is called on a document
InitLoads ==
    /\ pc = "load_json"
    /\ lockfile = NoLockfile
    /\ path_mappings \in GivenMappings
    /\ contents \in {NotJson} \cup { [json_ok |-> TRUE, value |-> d] : d \in Documents }
    /\ InitCodecVars

\* as_json_data is called on a Lockfile, and loads on what it wrote
InitRoundTrip ==
    /\ pc = "as_json_data"
    /\ lockfile \in Lockfiles
    /\ path_mappings \in GivenMappings
    /\ contents = NotJson
    /\ InitCodecVars

InitCodec == InitLoads \/ InitRoundTrip

IdleCodec ==
    /\ pc = "idle"
    /\ lockfile = NoLockfile
    /\ path_mappings = <<>>
    /\ contents = NotJson
    /\ InitCodecVars

---------------------------------------------------------------------------
(* The claims about the codec, checked under Spec *)

Doc == contents.value
Loaded == pc = "done" /\ contents.json_ok
Returned_Lockfile == result.kind = "Lockfile"
RaisedParseError ==
    result.kind = "raised" /\ result.error.type \in {"ParseError", "PathMappingError"}
RaisedPathMappingError ==
    result.kind = "raised" /\ result.error.type = "PathMappingError"

\* The value under key of a JSON object, None when the key is absent.
Under(obj, key) == IF HasKey(obj, key) THEN Lookup(obj, key) ELSE None
ListUnder(obj, key) ==
    IF obj.t = "dict" /\ Under(obj, key).t = "list" THEN Under(obj, key).l ELSE <<>>

\* The locked resolves of the document, and the locked requirements of one.
DocResolves == ListUnder(Doc, K("locked_resolves"))
DocReqs(i) == ListUnder(DocResolves[i], K("locked_requirements"))

\* Whether some string of the Lockfile holds the placeholder of a mapping.
HoldsPlaceholder(text) ==
    \E i \in 1..Len(path_mappings) : Contains(text, Placeholder(path_mappings[i].name))

LockfileTexts(lf) ==
    { lf.requirements[i].text : i \in 1..Len(lf.requirements) }
    \cup { lf.constraints[i].text : i \in 1..Len(lf.constraints) }
    \cup UNION { UNION { { r.requires_dists[i].text : i \in 1..Len(r.requires_dists) }
                         \cup { iter_artifacts(r)[i].url : i \in 1..Len(iter_artifacts(r)) } :
                         r \in { lr.locked_requirements[j] :
                                    j \in 1..Len(lr.locked_requirements) } } :
                 lr \in { lf.locked_resolves[i] : i \in 1..Len(lf.locked_resolves) } }

\* C1: as_json_data followed by loads returns a Lockfile equal to the one
\* written, field for field (stated here for the Lockfiles none of whose
\* strings holds a placeholder of the path mappings).
C1_RoundTrip ==
    (pc = "done" /\ lockfile # NoLockfile
        /\ \A text \in LockfileTexts(lockfile) : ~HoldsPlaceholder(text))
    => result = ReturnedLockfile(lockfile)

\* C3: when the path_mappings object of a document declares the names D and
\* the caller gives the names G, loads raises a PathMappingError exactly when
\* D \ G is not empty, whatever else the document holds; the error carries
\* D \ G as its unspecified_paths and the declared object as its
\* required_path_mappings.
C3_PathMappingGap ==
    (Loaded /\ Doc.t = "dict" /\ Under(Doc, K("path_mappings")).t \in {"dict", "None"})
    => LET declared == IF Under(Doc, K("path_mappings")).t = "dict"
                       THEN Under(Doc, K("path_mappings"))
                       ELSE PyDict(<<>>)
           D == { declared.l[i].k : i \in 1..Len(declared.l) }
           G == { path_mappings[i].name : i \in 1..Len(path_mappings) }
       IN  IF D \ G # {}
           THEN /\ RaisedPathMappingError
                /\ result.error.unspecified_paths = D \ G
                /\ result.error.required_path_mappings = declared
           ELSE ~RaisedPathMappingError

\* C3's case: a document that declares A and B and lacks "requirements" is
\* loaded with A alone given, and the PathMappingError names B.
C3_Witness ==
    /\ Loaded
    /\ Doc.t = "dict"
    /\ ~HasKey(Doc, K("requirements"))
    /\ RaisedPathMappingError
    /\ result.error.unspecified_paths = { <<"B">> }

\* The schema of the lock file: the JSON type of each key, and whether null
\* may stand for the value.
TopSchema ==
    << [key |-> "pex_version", type |-> "str", nullable |-> FALSE],
       [key |-> "style", type |-> "str", nullable |-> FALSE],
       [key |-> "requires_python", type |-> "list", nullable |-> FALSE],
       [key |-> "target_systems", type |-> "list", nullable |-> TRUE],
       [key |-> "pip_version", type |-> "str", nullable |-> TRUE],
       [key |-> "resolver_version", type |-> "str", nullable |-> FALSE],
       [key |-> "requirements", type |-> "list", nullable |-> FALSE],
       [key |-> "constraints", type |-> "list", nullable |-> FALSE],
       [key |-> "allow_prereleases", type |-> "bool", nullable |-> FALSE],
       [key |-> "allow_wheels", type |-> "bool", nullable |-> FALSE],
       [key |-> "allow_builds", type |-> "bool", nullable |-> FALSE],
       [key |-> "prefer_older_binary", type |-> "bool", nullable |-> FALSE],
       [key |-> "use_pep517", type |-> "bool", nullable |-> TRUE],
       [key |-> "build_isolation", type |-> "bool", nullable |-> FALSE],
       [key |-> "transitive", type |-> "bool", nullable |-> FALSE],
       [key |-> "locked_resolves", type |-> "list", nullable |-> FALSE],
       [key |-> "path_mappings", type |-> "dict", nullable |-> TRUE] >>
ResolveSchema ==
    << [key |-> "platform_tag", type |-> "list", nullable |-> TRUE],
       [key |-> "locked_requirements", type |-> "list", nullable |-> FALSE] >>
ReqSchema ==
    << [key |-> "project_name", type |-> "str", nullable |-> FALSE],
       [key |-> "version", type |-> "str", nullable |-> FALSE],
       [key |-> "requires_dists", type |-> "list", nullable |-> FALSE],
       [key |-> "requires_python", type |-> "str", nullable |-> TRUE],
       [key |-> "artifacts", type |-> "list", nullable |-> FALSE] >>

\* Whether obj holds a key of the schema with a value of another type.
Mistyped(obj, schema) ==
    /\ obj.t = "dict"
    /\ \E i \in 1..Len(schema) :
          /\ HasKey(obj, K(schema[i].key))
          /\ Lookup(obj, K(schema[i].key)).t # schema[i].type
          /\ ~(schema[i].nullable /\ Lookup(obj, K(schema[i].key)).t = "None")

DocMistyped ==
    \/ Mistyped(Doc, TopSchema)
    \/ \E i \in 1..Len(DocResolves) :
          \/ Mistyped(DocResolves[i], ResolveSchema)
          \/ \E j \in 1..Len(DocReqs(i)) : Mistyped(DocReqs(i)[j], ReqSchema)

\* C4: a document that holds a key of the schema with a value of another JSON
\* type makes loads raise a ParseError; no Lockfile is returned and no other
\* exception is raised.
C4_TypedAccess ==
    (Loaded /\ Doc.t = "dict" /\ DocMistyped) => RaisedParseError

\* C5: in a returned Lockfile a locked resolve whose platform_tag is present
\* and not null has the tag made of its 3 string components, in order, and a
\* locked resolve has no tag only when the key is absent or null.
C5_PlatformTagArity ==
    (Loaded /\ Returned_Lockfile)
    => \A i \in 1..Len(DocResolves) :
          LET given == Under(DocResolves[i], K("platform_tag"))
              tag == result.lockfile.locked_resolves[i].platform_tag
          IN  IF given.t = "None" THEN tag = NoTag
              ELSE /\ given.t = "list"
                   /\ Len(given.l) = 3
                   /\ \A n \in 1..3 : given.l[n].t = "str"
                   /\ tag = Tag(given.l[1].s, given.l[2].s, given.l[3].s)

\* The strings of a JSON list
Strings(v) == [i \in 1..Len(v.l) |-> v.l[i].s]

Canonical(texts) == [i \in 1..Len(texts) |-> maybe_canonicalize(path_mappings, texts[i])]

NoDestination(texts) ==
    \A i \in 1..Len(texts) : \A m \in 1..Len(path_mappings) :
        ~Contains(texts[i], path_mappings[m].path)

\* C6: in the document as_json_data writes, every artifact url and every
\* requirement string of requirements, constraints and requires_dists is the
\* canonicalized model value and holds no mapping's destination, and
\* path_mappings maps each mapping's name to its description.
C6_Canonicalized ==
    (lockfile # NoLockfile /\ pc # "as_json_data")
    => LET written(key) == Strings(Lookup(Doc, K(key)))
           texts(requirements_) == [i \in 1..Len(requirements_) |-> requirements_[i].text]
       IN  /\ written("requirements") = Canonical(texts(lockfile.requirements))
           /\ NoDestination(written("requirements"))
           /\ written("constraints") = Canonical(texts(lockfile.constraints))
           /\ NoDestination(written("constraints"))
           /\ \A i \in 1..Len(lockfile.locked_resolves) :
                 \A j \in 1..Len(lockfile.locked_resolves[i].locked_requirements) :
                    LET req == lockfile.locked_resolves[i].locked_requirements[j]
                        json == DocReqs(i)[j]
                        urls == [n \in 1..Len(iter_artifacts(req)) |-> iter_artifacts(req)[n].url]
                        json_urls == [n \in 1..Len(Lookup(json, K("artifacts")).l) |->
                                         Lookup(Lookup(json, K("artifacts")).l[n], K("url")).s]
                    IN  /\ Strings(Lookup(json, K("requires_dists")))
                               = Canonical(texts(req.requires_dists))
                        /\ NoDestination(Strings(Lookup(json, K("requires_dists"))))
                        /\ json_urls = Canonical(urls)
                        /\ NoDestination(json_urls)
           /\ Lookup(Doc, K("path_mappings")).l
                  = [m \in 1..Len(path_mappings) |->
                        Item(path_mappings[m].name, path_mappings[m].description)]

\* The artifact a JSON artifact object denotes.
ArtifactOf(json) ==
    Artifact(maybe_reify(path_mappings, Lookup(json, K("url")).s),
             Fingerprint(Lookup(json, K("algorithm")), Lookup(json, K("hash"))))

\* The place where loads stopped: inside the requirement at lock_index, req_index.
StoppedAtRequirement ==
    pc = "done" /\ result.kind = "raised" /\ req_index < Len(reqs)

NoArtifactsError ==
    RaisedError(ParseError("to have at least one artifact",
                           <<".locked_resolves", "[", ToString(lock_index), "]",
                             "[", ToString(req_index), "]">>, <<>>))

Names(enum_type, v) == v.t = "str" /\ v.s \in Values(enum_type)

\* C8: a present value of style, pip_version, resolver_version or of an
\* element of target_systems that is no member of the vocabulary makes loads
\* raise a ParseError, but for pip_version absent, null or the empty string,
\* which give the default; a returned Lockfile holds the members the document
\* names.
C8_ClosedVocabularies ==
    (Loaded /\ Doc.t = "dict")
    => /\ ( \/ HasKey(Doc, K("style")) /\ ~Names("LockStyle", Under(Doc, K("style")))
            \/ HasKey(Doc, K("resolver_version"))
                  /\ ~Names("ResolverVersion", Under(Doc, K("resolver_version")))
            \/ /\ Under(Doc, K("pip_version")) \notin {None, PyStr(<<>>)}
               /\ ~Names("PipVersion", Under(Doc, K("pip_version")))
            \/ \E i \in 1..Len(ListUnder(Doc, K("target_systems"))) :
                  ~Names("TargetSystem", ListUnder(Doc, K("target_systems"))[i]) )
          => RaisedParseError
       /\ Returned_Lockfile
          => /\ result.lockfile.style = EnumValue("LockStyle", Under(Doc, K("style")).s)
             /\ result.lockfile.resolver_version
                    = EnumValue("ResolverVersion", Under(Doc, K("resolver_version")).s)
             /\ result.lockfile.pip_version
                    = IF Under(Doc, K("pip_version")) \in {None, PyStr(<<>>)}
                      THEN DefaultPipVersion
                      ELSE EnumValue("PipVersion", Under(Doc, K("pip_version")).s)

---------------------------------------------------------------------------
(* pex/pip/local_project.py *)

\* Bounds of the fingerprinter's inputs.
MaxMembers == 2

\* The process's working directory and the directory temporary_dir() yields.
Cwd == <<"/", "c">>
Td == <<"/", "t">>

isabs(p) == p # <<>> /\ p[1] = "/"

\* os.path.join(a, b)
join(a, b) ==
    IF isabs(b) THEN b
    ELSE IF a = <<>> \/ a[Len(a)] = "/" THEN a \o b
    ELSE a \o <<"/">> \o b

\* p.split("/")
RECURSIVE SplitSlash(_, _)
SplitSlash(p, cur) ==
    IF p = <<>> THEN <<cur>>
    ELSE IF p[1] = "/" THEN <<cur>> \o SplitSlash(Tail(p), <<>>)
    ELSE SplitSlash(Tail(p), Append(cur, p[1]))

\* The component stack of os.path.normpath for an absolute path.
RECURSIVE NormComps(_, _)
NormComps(comps, stack) ==
    IF comps = <<>> THEN stack
    ELSE LET c == comps[1] IN
         IF c = <<>> \/ c = <<".">> THEN NormComps(Tail(comps), stack)
         ELSE IF c = <<"..">> THEN
              NormComps(Tail(comps),
                        IF stack = <<>> THEN <<>> ELSE SubSeq(stack, 1, Len(stack) - 1))
         ELSE NormComps(Tail(comps), Append(stack, c))

RECURSIVE JoinComps(_)
JoinComps(comps) ==
    IF comps = <<>> THEN <<>>
    ELSE <<"/">> \o comps[1] \o JoinComps(Tail(comps))

AbsComps(p) == NormComps(SplitSlash(IF isabs(p) THEN p ELSE join(Cwd, p), <<>>), <<>>)

\* os.path.abspath(p)
abspath(p) ==
    LET comps == AbsComps(p) IN
    IF comps = <<>> THEN <<"/">> ELSE JoinComps(comps)

\* os.path.commonprefix([a, b]): the longest common prefix, character by character
RECURSIVE commonprefix(_, _)
commonprefix(a, b) ==
    IF a = <<>> \/ b = <<>> \/ a[1] # b[1] THEN <<>>
    ELSE <<a[1]>> \o commonprefix(Tail(a), Tail(b))

is_within_directory(directory, target) ==
    LET abs_directory == abspath(directory)
        abs_target == abspath(target)
        prefix == commonprefix(abs_directory, abs_target)
    IN  prefix = abs_directory

\* Whether the normalized absolute path of target is directory itself or lies
\* beneath it, component by component.
Beneath(directory, target) ==
    StartsWith(AbsComps(target), AbsComps(directory))

\* The check loop of safe_extract: TRUE when some member is refused.
TraversalDetected(path, members) ==
    \E i \in 1..Len(members) : ~is_within_directory(path, join(path, members[i]))

\* tar.extractall(path): every member is written at path joined with its name.
ExtractAll(path, members) ==
    { abspath(join(path, members[i])) : i \in 1..Len(members) }

\* os.listdir(d): the names of the entries directly inside d.
listdir(files, d) ==
    LET n == Len(AbsComps(d)) IN
    { AbsComps(f)[n + 1] : f \in { g \in files : Beneath(d, g) /\ Len(AbsComps(g)) > n } }

\* Whether directory d holds a file.
DirExists(files, d) ==
    \E f \in files : Beneath(d, f) /\ Len(AbsComps(f)) > Len(AbsComps(d))

\* The exit of "with temporary_dir() as td": the temporary tree is removed.
temporary_dir_exit(files) == { f \in files : ~Beneath(Td, f) }

\* The member names an sdist may hold.
InsideF == <<"p", "/", "f">>
InsideG == <<"p", "/", "g">>
SecondTop == <<"q", "/", "f">>
EscapeUp == <<"..", "/", "..", "/", "q", "/", "f">>
EscapeAbs == <<"/", "q", "/", "f">>
SiblingOfTmp == <<"..", "/", "extracted", "x", "/", "f">>
SiblingOfDest == <<"..", "/", "d", "x", "/", "f">>
MemberNames == {InsideF, InsideG, SecondTop, EscapeUp, EscapeAbs, SiblingOfTmp, SiblingOfDest}

Archives == UNION { [1..n -> MemberNames] : n \in 1..MaxMembers }

DestDirs == {None, PyStr(<<"/", "d">>), PyStr(<<"d">>)}

Returned(v) == [kind |-> "returned", what |-> v]
Raised(e) == [kind |-> "raised", what |-> PyStr(<<e>>)]
Pending == [kind |-> "pending", what |-> None]
Error == [t |-> "Error", s |-> <<"build failed">>]

InitFp ==
    /\ fp_pc = "build"
    /\ caller \in {"digest", "fingerprint"}
    /\ dest_dir \in DestDirs
    /\ build_ok \in BOOLEAN
    /\ archive \in Archives
    /\ fs = {}
    /\ extract_dir = <<>>
    /\ digested = {}
    /\ ret = Pending
    /\ top = Pending

\* digest_local_project leaves with r: the "with temporary_dir()" block exits, and
\* a caller that called digest_local_project itself has its answer.
Leave(r, files) ==
    /\ ret' = r
    /\ fs' = temporary_dir_exit(files)
    /\ IF caller = "digest"
       THEN fp_pc' = "done" /\ top' = r
       ELSE fp_pc' = "try" /\ top' = top

\* A mutant of ReturnError: the build failure is raised.
RaiseError(sdist_or_error) == Raised("BuildError")

\* if isinstance(sdist_or_error, Error): return sdist_or_error
ReturnError(sdist_or_error) == Returned(sdist_or_error)

\* pep_517.build_sdist and the choice of extract_dir
BuildSdistFailed ==
    /\ fp_pc = "build"
    /\ ~build_ok
    /\ Leave(ReturnError(Error), fs)
    /\ UNCHANGED codecvars
    /\ UNCHANGED <<caller, dest_dir, build_ok, archive, extract_dir, digested>>

BuildSdist ==
    /\ fp_pc = "build"
    /\ build_ok
    /\ fs' = fs \cup {abspath(join(join(Td, <<"dists">>), <<"sdist">>))}
    /\ extract_dir' = IF dest_dir.t = "str" /\ dest_dir.s # <<>>
                      THEN dest_dir.s
                      ELSE join(Td, <<"extracted">>)
    /\ fp_pc' = "extract"
    /\ UNCHANGED codecvars
    /\ UNCHANGED <<caller, dest_dir, build_ok, archive, digested, ret, top>>

\* safe_extract(tf, extract_dir)
SafeExtractRefuses ==
    /\ fp_pc = "extract"
    /\ TraversalDetected(extract_dir, archive)
    /\ Leave(Raised("Attempted Path Traversal in Tar File"), fs)
    /\ UNCHANGED codecvars
    /\ UNCHANGED <<caller, dest_dir, build_ok, archive, extract_dir, digested>>

SafeExtract ==
    /\ fp_pc = "extract"
    /\ ~TraversalDetected(extract_dir, archive)
    /\ fs' = fs \cup ExtractAll(extract_dir, archive)
    /\ fp_pc' = "list"
    /\ UNCHANGED codecvars
    /\ UNCHANGED <<caller, dest_dir, build_ok, archive, extract_dir, digested, ret, top>>

\* The path digest_local_project returns
ReturnedPath(dir, project_dir) == join(dir, project_dir)

\* os.listdir, the assertion, hashing.dir_hash and the return
ListingAssertionFails ==
    /\ fp_pc = "list"
    /\ Cardinality(listdir(fs, extract_dir)) # 1
    /\ Leave(Raised("AssertionError"), fs)
    /\ UNCHANGED codecvars
    /\ UNCHANGED <<caller, dest_dir, build_ok, archive, extract_dir, digested>>

HashAndReturn ==
    /\ fp_pc = "list"
    /\ Cardinality(listdir(fs, extract_dir)) = 1
    /\ LET listing == SetToSeq(listdir(fs, extract_dir))
           project_dir == join(extract_dir, listing[1])
       IN  /\ digested' = { f \in fs : Beneath(project_dir, f) }
           /\ Leave(Returned(PyStr(ReturnedPath(extract_dir, project_dir))), fs)
    /\ UNCHANGED codecvars
    /\ UNCHANGED <<caller, dest_dir, build_ok, archive, extract_dir>>

\* pex.result.try_: an Error is raised as a ResultError, anything else is passed on.
try_(r) ==
    IF r.kind = "returned" /\ r.what = Error THEN Raised("ResultError") ELSE r

\* fingerprint_local_project after digest_local_project has left
FingerprintLocalProject ==
    /\ fp_pc = "try"
    /\ top' = IF try_(ret).kind = "raised"
              THEN try_(ret)
              ELSE Returned([t |-> "hexdigest", s |-> <<>>])
    /\ fp_pc' = "done"
    /\ UNCHANGED codecvars
    /\ UNCHANGED <<caller, dest_dir, build_ok, archive, fs, extract_dir, digested, ret>>

NextFp ==
    \/ BuildSdistFailed
    \/ BuildSdist
    \/ SafeExtractRefuses
    \/ SafeExtract
    \/ ListingAssertionFails
    \/ HashAndReturn
    \/ FingerprintLocalProject

IdleFp ==
    /\ fp_pc = "idle"
    /\ caller = "digest"
    /\ dest_dir = None
    /\ build_ok = TRUE
    /\ archive = <<>>
    /\ fs = {}
    /\ extract_dir = <<>>
    /\ digested = {}
    /\ ret = Pending
    /\ top = Pending

---------------------------------------------------------------------------
(* The claims about the fingerprinter, checked under SpecFp *)

Escapes(member) == ~Beneath(extract_dir, join(extract_dir, member))

\* C2: when the destination of some archive entry is neither the extraction
\* root nor beneath it, safe_extract raises the path traversal error and no
\* entry of the archive is written.
C2_TraversalRefused ==
    (build_ok /\ fp_pc \in {"list", "try", "done"}
        /\ \E i \in 1..Len(archive) : Escapes(archive[i]))
    => /\ ret = Raised("Attempted Path Traversal in Tar File")
       /\ \A i \in 1..Len(archive) : abspath(join(extract_dir, archive[i])) \notin fs

C10_ReturnedPathUsable ==
    (fp_pc \in {"try", "done"} /\ ret.kind = "returned" /\ ret.what.t = "str")
    => /\ \E name \in listdir(ExtractAll(extract_dir, archive), extract_dir) :
             ret.what.s = join(extract_dir, name)
       /\ DirExists(fs, ret.what.s)

---------------------------------------------------------------------------
(* The specifications *)

vars == <<fpvars, codecvars>>

\* The lock file codec: loads on hand-edited documents, and as_json_data
\* followed by loads on Lockfiles.
Init == InitCodec /\ IdleFp

Spec == Init /\ [][NextCodec]_vars

\* The local project fingerprinter.
InitFpOnly == InitFp /\ IdleCodec

SpecFp == InitFpOnly /\ [][NextFp]_vars

=============================================================================
